---------------------------- MODULE Spec2Model ----------------------------
(***************************************************************************)
(* A model of utils/client.go: memcachedDiscoveryClient, the in-memory     *)
(* read-through cache in front of a discovery provider, and the            *)
(* preferred-resource aggregation built on top of it.                      *)
(*                                                                         *)
(* Threads call the methods of one memcachedDiscoveryClient.  Every method *)
(* is cut at the points where other threads can interleave: the call, the  *)
(* acquisition of c.lock, the cache test, the provider call (in flight     *)
(* between its issue and its return) and the deferred unlock.              *)
(***************************************************************************)
EXTENDS Integers, Sequences, FiniteSets, TLC

\* ------------------------------------------------------------------ bounds
MaxThreads == 2        \* concurrent callers
MaxCalls == 2          \* provider calls issued in one behaviour
MaxVersions == 2       \* versions a group of the concurrent model declares
PrefVersions == 2      \* versions a group of the aggregation model can declare
MaxAggCalls == 3       \* provider calls issued while aggregations run concurrently
MaxLiveCalls == 2      \* provider calls begun in a behaviour under fairness

\* ---------------------------------------------------------------- universe
AllVersionNames == <<"v1beta1", "v1", "v2", "v3", "v4">>

Threads == 1..MaxThreads
NoThread == 0

\* schema.GroupVersion.String(): "group/version", or "version" for the
\* group "".  A string is the sequence of its parts.
GroupVersionString(group, version) ==
    IF group = "" THEN <<version>> ELSE <<group, "/", version>>

\* A nil pointer, and a pointer to an object the provider allocated: id is
\* the serial number of the provider call that returned it.
Nil == [id |-> 0]
IsNil(v) == v.id = 0
NoErr == 0

VARIABLES
    srv,        \* what the remote server would answer: group list, resource lists
    cache,      \* the five fields of memcachedDiscoveryClient
    lock,       \* c.lock: the thread holding it, or NoThread
    pc,         \* per thread: where it stands
    op,         \* per thread: the method it runs
    key,        \* per thread: the method's argument (a group-version string)
    ret,        \* per thread: the value the method is about to return
    err,        \* per thread: the error it is about to return (NoErr: nil)
    fetchId,    \* per thread: serial of the provider call this call issued, 0: none
    ncalls,     \* provider calls issued so far
    \* history, read by the properties only
    seen,       \* per thread: lastEvt of its slot when it tested the cache
    lastEvt,    \* per slot: the latest provider answer, or Invalidate, to touch it
    prev,       \* per thread: its previous read-through call, if no Invalidate since
    frame,      \* per thread: the locals of the composite method it runs
    budget      \* provider calls the model follows a behaviour for

vars == <<srv, cache, lock, pc, op, key, ret, err, fetchId, ncalls,
          seen, lastEvt, prev, frame, budget>>

\* ------------------------------------------------------------ server data
\* metav1.GroupVersionForDiscovery
Discovery(group, version) ==
    [GroupVersion |-> GroupVersionString(group, version), Version |-> version]

\* metav1.APIResource.  A name is the sequence of its parts, "/" among
\* them for a subresource; Verbs stands for the fields the code never
\* reads, which tell the descriptors of two versions apart.
Resource(name, kind, namespaced, verbs) ==
    [Name |-> name, Kind |-> kind, Namespaced |-> namespaced, Verbs |-> verbs]

VersionNames == {AllVersionNames[i] : i \in 1..MaxVersions}

\* The server of the spec's tie-break example: group "apps" declaring
\* v1beta1 then v1, preferring v1, "deployments" in both.
AppsServer ==
    [groups |-> << [Name |-> "apps",
                    Versions |-> [i \in 1..MaxVersions |->
                                    Discovery("apps", AllVersionNames[i])],
                    PreferredVersion |-> Discovery("apps", "v1")] >>,
     resources |-> [k \in {GroupVersionString("apps", v) : v \in VersionNames} |->
                      << Resource(<<"deployments">>, "Deployment", TRUE, k),
                         Resource(<<"deployments", "/", "status">>, "Deployment",
                                  TRUE, k) >>]]

\* The group-version strings the server knows.
ServerKeys(s) == DOMAIN s.resources

\* ------------------------------------------------------------------ slots
ReadThrough == {"ServerGroups", "ServerResourcesForGroupVersion",
                "SwaggerSchema", "OpenAPISchema", "ServerVersion"}
Keyed == {"ServerResourcesForGroupVersion", "SwaggerSchema"}
NoKey == <<>>

\* The slots of the cache: a method and, for the two maps, a key.
Slots(s) ==
    {<<o, k>> \in ReadThrough \X (ServerKeys(s) \cup {NoKey}) :
        (o \in Keyed) = (k # NoKey)}

\* m[k] of a Go map: the zero value (nil) for a key the map does not hold.
MapGet(m, k) == IF k \in DOMAIN m THEN m[k] ELSE Nil
\* m[k] = v
MapPut(m, k, v) == [x \in DOMAIN m \cup {k} |-> IF x = k THEN v ELSE m[x]]
\* make(map[string]...)
EmptyMap == [x \in {} |-> Nil]

\* The field (or map entry) a read-through method tests and fills.
CacheGet(c, o, k) ==
    CASE o = "ServerGroups" -> c.servergroups
      [] o = "ServerResourcesForGroupVersion" -> MapGet(c.serverresources, k)
      [] o = "SwaggerSchema" -> MapGet(c.schemas, k)
      [] o = "OpenAPISchema" -> c.schema
      [] o = "ServerVersion" -> c.serverVersion

CachePut(c, o, k, v) ==
    CASE o = "ServerGroups" -> [c EXCEPT !.servergroups = v]
      [] o = "ServerResourcesForGroupVersion" ->
            [c EXCEPT !.serverresources = MapPut(@, k, v)]
      [] o = "SwaggerSchema" -> [c EXCEPT !.schemas = MapPut(@, k, v)]
      [] o = "OpenAPISchema" -> [c EXCEPT !.schema = v]
      [] o = "ServerVersion" -> [c EXCEPT !.serverVersion = v]

\* ------------------------------------------------------------------- Init
\* NewMemcachedDiscoveryClient: the state Invalidate leaves.
EmptyCache ==
    [servergroups |-> Nil, serverresources |-> EmptyMap, schemas |-> EmptyMap,
     schema |-> Nil, serverVersion |-> Nil]

NoCall == [op |-> "none"]

\* The locals of a thread that runs no composite method.
NoFrame == [outer |-> "none"]
NoEvt == [kind |-> "none", val |-> Nil]

InitClient ==
    /\ cache = EmptyCache
    /\ lock = NoThread
    /\ pc = [t \in Threads |-> "idle"]
    /\ op = [t \in Threads |-> "none"]
    /\ key = [t \in Threads |-> NoKey]
    /\ ret = [t \in Threads |-> Nil]
    /\ err = [t \in Threads |-> NoErr]
    /\ fetchId = [t \in Threads |-> 0]
    /\ ncalls = 0
    /\ seen = [t \in Threads |-> "none"]
    /\ prev = [t \in Threads |-> NoCall]
    /\ frame = [t \in Threads |-> NoFrame]

Init ==
    /\ srv = AppsServer
    /\ lastEvt = [s \in Slots(srv) |-> NoEvt]
    /\ budget = MaxCalls
    /\ InitClient

\* ------------------------------------------------------- the provider, c.cl
\* How a provider call can end: a value and no error, no value and an error,
\* or both a value and an error (the signature (*T, error) allows it).
ProviderOutcomes == {"ok", "fail", "partial"}

\* The object a provider call with serial n answers method o for key k with.
ProviderValue(o, k, n) ==
    [id |-> n,
     data |-> CASE o = "ServerGroups" -> [Groups |-> srv.groups]
                [] o = "ServerResourcesForGroupVersion" ->
                      [GroupVersion |-> k, APIResources |-> srv.resources[k]]
                [] OTHER -> [about |-> k]]

\* The (value, error) pair of a provider call that ends with outcome o.
ProviderResult(o, method, k, n) ==
    [val |-> IF o = "fail" THEN Nil ELSE ProviderValue(method, k, n),
     err |-> IF o = "ok" THEN NoErr ELSE n]

\* -------------------------------------------------------------- the lock
\* Variants of the lock a slip would produce: Invalidate not taking the
\* lock, and the read-through methods taking the RWMutex as readers.
CanLockUnlockedInvalidate(t) == lock = NoThread \/ op[t] = "Invalidate"
CanLockAsReader(t) ==
    IF lock = NoThread THEN TRUE
    ELSE op[t] # "Invalidate" /\ op[lock] # "Invalidate"

\* c.lock.Lock() returns once no one holds the lock.
CanLock(t) == lock = NoThread

\* ---------------------------------------------------------------- actions
\* The schema.GroupVersion structs the server's group list names.
ServerGroupVersions(s) ==
    UNION {{[Group |-> s.groups[i].Name, Version |-> s.groups[i].Versions[j].Version] :
               j \in DOMAIN s.groups[i].Versions} : i \in DOMAIN s.groups}

\* A thread calls a read-through method.  SwaggerSchema computes its key
\* before it takes the lock.
CallReadThrough(t) ==
    /\ pc[t] = "idle"
    /\ \E o \in ReadThrough :
         \E k \in IF o = "ServerResourcesForGroupVersion" THEN ServerKeys(srv)
                  ELSE IF o = "SwaggerSchema"
                       THEN {GroupVersionString(gv.Group, gv.Version) :
                                gv \in ServerGroupVersions(srv)}
                       ELSE {NoKey} :
            /\ op' = [op EXCEPT ![t] = o]
            /\ key' = [key EXCEPT ![t] = k]
    /\ pc' = [pc EXCEPT ![t] = "lock"]
    /\ UNCHANGED <<srv, budget, frame, cache, lock, ret, err, fetchId, ncalls,
                   seen, lastEvt, prev>>

\* A thread calls Invalidate.
CallInvalidate(t) ==
    /\ pc[t] = "idle"
    /\ op' = [op EXCEPT ![t] = "Invalidate"]
    /\ key' = [key EXCEPT ![t] = NoKey]
    /\ pc' = [pc EXCEPT ![t] = "lock"]
    /\ UNCHANGED <<srv, budget, frame, cache, lock, ret, err, fetchId, ncalls,
                   seen, lastEvt, prev>>

\* c.lock.Lock(), the first statement of every method.
Lock(t) ==
    /\ pc[t] = "lock"
    /\ CanLock(t)
    /\ lock' = t
    /\ pc' = [pc EXCEPT ![t] = IF op[t] = "Invalidate" THEN "reset_servergroups"
                                ELSE "check"]
    /\ UNCHANGED <<srv, budget, frame, cache, op, key, ret, err, fetchId, ncalls,
                   seen, lastEvt, prev>>

\* Variant: the cache is never consulted.
CacheHitNever(c, o, k) == FALSE

\* Whether the cache test of a read-through method finds a value.
CacheHit(c, o, k) == ~IsNil(CacheGet(c, o, k))

\* The cache test: a hit returns the cached value and a nil error, a miss
\* issues the provider call.  The model follows a behaviour up to its
\* budget-th provider call.
Check(t) ==
    /\ pc[t] = "check"
    /\ seen' = [seen EXCEPT ![t] = lastEvt[<<op[t], key[t]>>].kind]
    /\ IF CacheHit(cache, op[t], key[t])
       THEN /\ ret' = [ret EXCEPT ![t] = CacheGet(cache, op[t], key[t])]
            /\ err' = [err EXCEPT ![t] = NoErr]
            /\ pc' = [pc EXCEPT ![t] = "unlock"]
            /\ UNCHANGED <<ncalls, fetchId>>
       ELSE /\ ncalls < budget
            /\ ncalls' = ncalls + 1
            /\ fetchId' = [fetchId EXCEPT ![t] = ncalls + 1]
            /\ pc' = [pc EXCEPT ![t] = "fetch"]
            /\ UNCHANGED <<ret, err>>
    /\ UNCHANGED <<srv, budget, frame, cache, lock, op, key, lastEvt, prev>>

\* Variant: the error is tested before the assignment.
StoreCheckedFirst(c, o, k, r) ==
    IF r.err # NoErr
    THEN [cache |-> c, ret |-> Nil, err |-> r.err]
    ELSE [cache |-> CachePut(c, o, k, r.val), ret |-> r.val, err |-> NoErr]

\* Variant: the provider's error is dropped.
StoreSwallowingError(c, o, k, r) ==
    [cache |-> CachePut(c, o, k, r.val),
     ret |-> CacheGet(CachePut(c, o, k, r.val), o, k),
     err |-> NoErr]

\* ServerGroups and ServerResourcesForGroupVersion assign the provider's
\* value to the cache whatever the error is and return the cache's value.
StoreAlways(c, o, k, r) ==
    [cache |-> CachePut(c, o, k, r.val),
     ret |-> CacheGet(CachePut(c, o, k, r.val), o, k),
     err |-> r.err]

\* Variant: the assignment to the cache is left out.
StoreNothing(c, o, k, r) ==
    IF r.err # NoErr
    THEN [cache |-> c, ret |-> Nil, err |-> r.err]
    ELSE [cache |-> c, ret |-> r.val, err |-> NoErr]

\* Variant: the assignment comes before the test of the error.
StoreBeforeCheck(c, o, k, r) ==
    [cache |-> CachePut(c, o, k, r.val), ret |-> r.val, err |-> r.err]

\* ServerVersion, SwaggerSchema and OpenAPISchema return (nil, err) on an
\* error and leave the cache alone; they store the value otherwise.
StoreUnlessError(c, o, k, r) ==
    IF r.err # NoErr
    THEN [cache |-> c, ret |-> Nil, err |-> r.err]
    ELSE [cache |-> CachePut(c, o, k, r.val), ret |-> r.val, err |-> NoErr]

\* What a read-through method does with the provider's answer r.
Store(c, o, k, r) ==
    IF o \in {"ServerGroups", "ServerResourcesForGroupVersion"}
    THEN StoreAlways(c, o, k, r)
    ELSE StoreUnlessError(c, o, k, r)

\* The provider call ends with outcome o and the method handles its answer.
\* A server that does not know the group-version answers with an error.
ProviderAnswer(t, o) ==
    /\ pc[t] = "fetch"
    /\ op[t] = "ServerResourcesForGroupVersion" /\ key[t] \notin ServerKeys(srv)
          => o = "fail"
    /\ LET r == ProviderResult(o, op[t], key[t], fetchId[t])
           s == Store(cache, op[t], key[t], r)
       IN /\ cache' = s.cache
          /\ ret' = [ret EXCEPT ![t] = s.ret]
          /\ err' = [err EXCEPT ![t] = s.err]
          /\ lastEvt' = [lastEvt EXCEPT ![<<op[t], key[t]>>] =
                            [kind |-> o, val |-> r.val]]
    /\ pc' = [pc EXCEPT ![t] = "unlock"]
    /\ UNCHANGED <<srv, budget, frame, lock, op, key, fetchId, ncalls, seen, prev>>

ProviderReturn(t) == \E o \in ProviderOutcomes : ProviderAnswer(t, o)

\* The five assignments of Invalidate, in the order of the source.
InvalidateFields ==
    <<"servergroups", "serverresources", "schemas", "schema", "serverVersion">>

ResetPc(i) == IF i > Len(InvalidateFields) THEN "unlock"
              ELSE "reset_" \o InvalidateFields[i]

\* Variant: a field added later and forgotten in Invalidate.
ResetFieldForgetsVersion(c, i) ==
    CASE i = 1 -> [c EXCEPT !.servergroups = Nil]
      [] i = 2 -> [c EXCEPT !.serverresources = EmptyMap]
      [] i = 3 -> [c EXCEPT !.schemas = EmptyMap]
      [] i = 4 -> [c EXCEPT !.schema = Nil]
      [] i = 5 -> c

\* Variant: Invalidate leaves the resource lists in place.
ResetFieldForgetsResources(c, i) ==
    CASE i = 1 -> [c EXCEPT !.servergroups = Nil]
      [] i = 2 -> c
      [] i = 3 -> [c EXCEPT !.schemas = EmptyMap]
      [] i = 4 -> [c EXCEPT !.schema = Nil]
      [] i = 5 -> [c EXCEPT !.serverVersion = Nil]

\* The cache after the i-th assignment of Invalidate.
ResetField(c, i) ==
    CASE i = 1 -> [c EXCEPT !.servergroups = Nil]
      [] i = 2 -> [c EXCEPT !.serverresources = EmptyMap]
      [] i = 3 -> [c EXCEPT !.schemas = EmptyMap]
      [] i = 4 -> [c EXCEPT !.schema = Nil]
      [] i = 5 -> [c EXCEPT !.serverVersion = Nil]

\* The slots the i-th assignment of Invalidate resets.
FieldSlots(i, s) ==
    {sl \in Slots(s) : sl[1] = CASE i = 1 -> "ServerGroups"
                                  [] i = 2 -> "ServerResourcesForGroupVersion"
                                  [] i = 3 -> "SwaggerSchema"
                                  [] i = 4 -> "OpenAPISchema"
                                  [] i = 5 -> "ServerVersion"}

\* History: Invalidate passed over the slot, dropping a value or not.
Dropped(c, sl) ==
    [kind |-> IF IsNil(CacheGet(c, sl[1], sl[2])) THEN "none" ELSE "dropped",
     val |-> Nil]

InvalidateAssign(t) ==
    /\ \E i \in DOMAIN InvalidateFields :
         /\ pc[t] = ResetPc(i)
         /\ cache' = ResetField(cache, i)
         /\ pc' = [pc EXCEPT ![t] = ResetPc(i + 1)]
         /\ lastEvt' = [sl \in DOMAIN lastEvt |->
                          IF sl \in FieldSlots(i, srv) THEN Dropped(cache, sl)
                          ELSE lastEvt[sl]]
    /\ UNCHANGED <<srv, budget, frame, lock, op, key, ret, err, fetchId, ncalls, seen, prev>>

\* The slot's value when a read-through call returns, and the provider
\* calls the call issued: what the next call of the thread is compared with.
CallRecord(t) ==
    [op |-> op[t], key |-> key[t], left |-> CacheGet(cache, op[t], key[t]),
     calls |-> IF fetchId[t] = 0 THEN 0 ELSE 1]

\* Variant: the unlock is not deferred and the error return skips it.
UnlockUnlessError(t) ==
    /\ pc[t] = "unlock"
    /\ lock' = IF lock = t /\ err[t] = NoErr THEN NoThread ELSE lock
    /\ IF op[t] = "Invalidate"
       THEN prev' = [u \in Threads |-> NoCall]
       ELSE prev' = [prev EXCEPT ![t] = CallRecord(t)]
    /\ IF frame[t].outer = "none"
       THEN /\ pc' = [pc EXCEPT ![t] = "idle"]
            /\ op' = [op EXCEPT ![t] = "none"]
            /\ key' = [key EXCEPT ![t] = NoKey]
            /\ ret' = [ret EXCEPT ![t] = Nil]
            /\ err' = [err EXCEPT ![t] = NoErr]
       ELSE /\ pc' = [pc EXCEPT ![t] = "resume"]
            /\ UNCHANGED <<op, key, ret, err>>
    /\ fetchId' = [fetchId EXCEPT ![t] = 0]
    /\ seen' = [seen EXCEPT ![t] = "none"]
    /\ UNCHANGED <<srv, budget, frame, cache, ncalls, lastEvt>>

\* defer c.lock.Unlock(): the method returns, to the thread's caller or to
\* the composite method that called it, which reads ret and err next.
Unlock(t) ==
    /\ pc[t] = "unlock"
    /\ lock' = IF lock = t THEN NoThread ELSE lock
    /\ IF op[t] = "Invalidate"
       THEN prev' = [u \in Threads |-> NoCall]
       ELSE prev' = [prev EXCEPT ![t] = CallRecord(t)]
    /\ IF frame[t].outer = "none"
       THEN /\ pc' = [pc EXCEPT ![t] = "idle"]
            /\ op' = [op EXCEPT ![t] = "none"]
            /\ key' = [key EXCEPT ![t] = NoKey]
            /\ ret' = [ret EXCEPT ![t] = Nil]
            /\ err' = [err EXCEPT ![t] = NoErr]
       ELSE /\ pc' = [pc EXCEPT ![t] = "resume"]
            /\ UNCHANGED <<op, key, ret, err>>
    /\ fetchId' = [fetchId EXCEPT ![t] = 0]
    /\ seen' = [seen EXCEPT ![t] = "none"]
    /\ UNCHANGED <<srv, budget, frame, cache, ncalls, lastEvt>>

\* ------------------------------------------ ServerPreferredResources
\* strings.Contains(name, "/")
ContainsSlash(name) == \E i \in DOMAIN name : name[i] = "/"

\* The locals of ServerPreferredResources before its first statement.
NewFrame(outer) ==
    [outer |-> outer,
     serverGroupList |-> Nil,       \* the group list ServerGroups returned
     gi |-> 1, vi |-> 1,            \* the two range loops: group, version
     result |-> <<>>,               \* the lists to return, in visiting order
     grVersions |-> EmptyMap,       \* GroupResource -> selected version
     grApiResources |-> EmptyMap,   \* GroupResource -> selected APIResource
     gvApiResourceLists |-> EmptyMap, \* GroupVersion -> index in result of its list
     todo |-> {},                   \* keys the regrouping loop has yet to range over
     ret |-> <<>>, retNil |-> TRUE, \* the slice the method returns, nil or not
     err |-> NoErr,                 \* the error it returns
     caller |-> "none",             \* the composite method that called this one
     all |-> <<>>]                  \* ServerPreferredNamespacedResources: all

\* A thread calls ServerPreferredResources, whose first statement calls
\* ServerGroups.
CallServerPreferredResources(t) ==
    /\ pc[t] = "idle"
    /\ frame' = [frame EXCEPT ![t] = NewFrame("ServerPreferredResources")]
    /\ op' = [op EXCEPT ![t] = "ServerGroups"]
    /\ key' = [key EXCEPT ![t] = NoKey]
    /\ pc' = [pc EXCEPT ![t] = "lock"]
    /\ UNCHANGED <<srv, budget, cache, lock, ret, err, fetchId, ncalls,
                   seen, lastEvt, prev>>

\* The composite method drops the result of the call it made.
Consumed ==
    /\ UNCHANGED <<srv, budget, cache, lock, fetchId, ncalls, seen, lastEvt, prev>>

\* Variant: the lists gathered so far are returned with the error.
FailWithPartial(f, e) == [f EXCEPT !.ret = f.result, !.retNil = FALSE, !.err = e]

\* return nil, err
FailWith(f, e) == [f EXCEPT !.ret = <<>>, !.retNil = TRUE, !.err = e]

\* ServerGroups returned: the error test, then the declarations.  Ranging
\* over the groups of a nil list is a nil dereference.
PreferredAfterGroups(t) ==
    /\ pc[t] = "resume"
    /\ frame[t].outer = "ServerPreferredResources"
    /\ op[t] = "ServerGroups"
    /\ IF err[t] # NoErr
       THEN /\ frame' = [frame EXCEPT ![t] = FailWith(@, err[t])]
            /\ pc' = [pc EXCEPT ![t] = "return"]
       ELSE IF IsNil(ret[t])
       THEN /\ pc' = [pc EXCEPT ![t] = "panic"]
            /\ UNCHANGED frame
       ELSE /\ frame' = [frame EXCEPT ![t].serverGroupList = ret[t]]
            /\ pc' = [pc EXCEPT ![t] = "loop"]
    /\ UNCHANGED <<op, key, ret, err>>
    /\ Consumed

\* The heads of the two range loops: the next version of the group calls
\* ServerResourcesForGroupVersion, a group out of versions gives way to the
\* next group, and after the last group the regrouping loop starts.
PreferredLoop(t) ==
    /\ pc[t] = "loop"
    /\ frame[t].outer = "ServerPreferredResources"
    /\ LET f == frame[t]
           groups == f.serverGroupList.data.Groups
       IN IF f.gi > Len(groups)
          THEN /\ frame' = [frame EXCEPT ![t].todo = DOMAIN f.grApiResources]
               /\ pc' = [pc EXCEPT ![t] = "regroup"]
               /\ UNCHANGED <<op, key>>
          ELSE IF f.vi > Len(groups[f.gi].Versions)
          THEN /\ frame' = [frame EXCEPT ![t].gi = f.gi + 1, ![t].vi = 1]
               /\ UNCHANGED <<pc, op, key>>
          ELSE /\ op' = [op EXCEPT ![t] = "ServerResourcesForGroupVersion"]
               /\ key' = [key EXCEPT ![t] = groups[f.gi].Versions[f.vi].GroupVersion]
               /\ pc' = [pc EXCEPT ![t] = "lock"]
               /\ UNCHANGED frame
    /\ UNCHANGED <<ret, err>>
    /\ Consumed

\* Variant: the first version seen keeps the resource, preferred or not.
KeepsSelectedFirstSeen(f, apiGroup, version, gr) == gr \in DOMAIN f.grApiResources

\* Variant: the version seen last takes the resource.
KeepsSelectedNever(f, apiGroup, version, gr) == FALSE

\* The test that leaves the selection for gr as it is: one is recorded and
\* this version is not the group's preferred version.
KeepsSelected(f, apiGroup, version, gr) ==
    /\ gr \in DOMAIN f.grApiResources
    /\ version.Version # apiGroup.PreferredVersion.Version

\* Variant: subresources are not skipped.
SkipsNothing(name) == FALSE

\* The resources the selection passes over: the subresources.
Skips(name) == ContainsSlash(name)

\* schema.GroupResource{Group: apiGroup.Name, Resource: apiResource.Name}
GroupResource(apiGroup, apiResource) ==
    [Group |-> apiGroup.Name, Resource |-> apiResource.Name]

\* Variant: an override records the version and keeps the older descriptor.
SelectResourceKeepingDescriptor(f, apiGroup, version, apiResource) ==
    IF ContainsSlash(apiResource.Name)
    THEN f
    ELSE LET gr == [Group |-> apiGroup.Name, Resource |-> apiResource.Name]
         IN IF gr \in DOMAIN f.grApiResources
            THEN IF version.Version # apiGroup.PreferredVersion.Version
                 THEN f
                 ELSE [f EXCEPT !.grVersions = MapPut(@, gr, version.Version)]
            ELSE [f EXCEPT !.grVersions = MapPut(@, gr, version.Version),
                           !.grApiResources = MapPut(@, gr, apiResource)]

\* One pass of the loop over apiResourceList.APIResources.
SelectResource(f, apiGroup, version, apiResource) ==
    IF Skips(apiResource.Name)
    THEN f
    ELSE LET gr == GroupResource(apiGroup, apiResource)
         IN IF KeepsSelected(f, apiGroup, version, gr)
            THEN f
            ELSE [f EXCEPT !.grVersions = MapPut(@, gr, version.Version),
                           !.grApiResources = MapPut(@, gr, apiResource)]

\* The loop over apiResourceList.APIResources, from index i on.
RECURSIVE SelectResources(_, _, _, _, _)
SelectResources(f, apiGroup, version, apiResources, i) ==
    IF i > Len(apiResources)
    THEN f
    ELSE SelectResources(SelectResource(f, apiGroup, version, apiResources[i]),
                         apiGroup, version, apiResources, i + 1)

\* Variant: the placeholder is named by the bare version.
AddPlaceholderNamedByVersion(f, apiGroup, version) ==
    [f EXCEPT !.result = Append(@, [GroupVersion |-> <<version.Version>>,
                                    APIResources |-> <<>>]),
              !.gvApiResourceLists =
                  MapPut(@, [Group |-> apiGroup.Name, Version |-> version.Version],
                         Len(f.result) + 1)]

\* The empty list created for the group-version, entered in
\* gvApiResourceLists and appended to result (one object, two references).
AddPlaceholder(f, apiGroup, version) ==
    [f EXCEPT !.result = Append(@, [GroupVersion |-> version.GroupVersion,
                                    APIResources |-> <<>>]),
              !.gvApiResourceLists =
                  MapPut(@, [Group |-> apiGroup.Name, Version |-> version.Version],
                         Len(f.result) + 1)]

\* The body of the inner range loop once the resource list is there.
VisitGroupVersion(f, apiGroup, version, apiResourceList) ==
    [SelectResources(AddPlaceholder(f, apiGroup, version), apiGroup, version,
                     apiResourceList.APIResources, 1)
        EXCEPT !.vi = f.vi + 1]

\* ServerResourcesForGroupVersion returned: the error test, then the body
\* of the loop.  Ranging over the resources of a nil list is a nil
\* dereference.
PreferredAfterResources(t) ==
    /\ pc[t] = "resume"
    /\ frame[t].outer = "ServerPreferredResources"
    /\ op[t] = "ServerResourcesForGroupVersion"
    /\ IF err[t] # NoErr
       THEN /\ frame' = [frame EXCEPT ![t] = FailWith(@, err[t])]
            /\ pc' = [pc EXCEPT ![t] = "return"]
       ELSE IF IsNil(ret[t])
       THEN /\ pc' = [pc EXCEPT ![t] = "panic"]
            /\ UNCHANGED frame
       ELSE LET f == frame[t]
                apiGroup == f.serverGroupList.data.Groups[f.gi]
            IN /\ frame' = [frame EXCEPT ![t] =
                              VisitGroupVersion(f, apiGroup, apiGroup.Versions[f.vi],
                                                ret[t].data)]
               /\ pc' = [pc EXCEPT ![t] = "loop"]
    /\ UNCHANGED <<op, key, ret, err>>
    /\ Consumed

\* One pass of the regrouping loop, for key gr of grApiResources: the
\* selected resource is appended to the list of its selected group-version.
RegroupOne(f, gr) ==
    LET groupVersion == [Group |-> gr.Group, Version |-> f.grVersions[gr]]
        at == f.gvApiResourceLists[groupVersion]
    IN [f EXCEPT !.result[at].APIResources = Append(@, f.grApiResources[gr]),
                 !.todo = @ \ {gr}]

\* The regrouping loop ranges over a map, in an order Go leaves open; a
\* group-version that gvApiResourceLists does not hold yields a nil list,
\* and appending to its field is a nil dereference.  After the last key the
\* method returns result.
PreferredRegroup(t) ==
    /\ pc[t] = "regroup"
    /\ frame[t].outer = "ServerPreferredResources"
    /\ LET f == frame[t]
       IN IF f.todo = {}
          THEN /\ frame' = [frame EXCEPT ![t].ret = f.result, ![t].retNil = FALSE]
               /\ pc' = [pc EXCEPT ![t] = "return"]
          ELSE \E gr \in f.todo :
                 IF [Group |-> gr.Group, Version |-> f.grVersions[gr]]
                       \in DOMAIN f.gvApiResourceLists
                 THEN /\ frame' = [frame EXCEPT ![t] = RegroupOne(f, gr)]
                      /\ UNCHANGED pc
                 ELSE /\ pc' = [pc EXCEPT ![t] = "panic"]
                      /\ UNCHANGED frame
    /\ UNCHANGED <<op, key, ret, err>>
    /\ Consumed

\* The composite method returns frame[t].ret and frame[t].err, to the thread
\* or to ServerPreferredNamespacedResources, which filters them next.
ReturnComposite(t) ==
    /\ pc[t] = "return"
    /\ IF frame[t].caller = "none"
       THEN /\ pc' = [pc EXCEPT ![t] = "idle"]
            /\ frame' = [frame EXCEPT ![t] = NoFrame]
            /\ op' = [op EXCEPT ![t] = "none"]
            /\ key' = [key EXCEPT ![t] = NoKey]
            /\ ret' = [ret EXCEPT ![t] = Nil]
            /\ err' = [err EXCEPT ![t] = NoErr]
       ELSE /\ pc' = [pc EXCEPT ![t] = "filter"]
            /\ UNCHANGED <<frame, op, key, ret, err>>
    /\ Consumed

\* ---------------------------------- ServerPreferredNamespacedResources
\* A thread calls ServerPreferredNamespacedResources, whose first statement
\* calls ServerPreferredResources.
CallServerPreferredNamespacedResources(t) ==
    /\ pc[t] = "idle"
    /\ frame' = [frame EXCEPT ![t] =
                    [NewFrame("ServerPreferredResources")
                        EXCEPT !.caller = "ServerPreferredNamespacedResources"]]
    /\ op' = [op EXCEPT ![t] = "ServerGroups"]
    /\ key' = [key EXCEPT ![t] = NoKey]
    /\ pc' = [pc EXCEPT ![t] = "lock"]
    /\ UNCHANGED <<srv, budget, cache, lock, ret, err, fetchId, ncalls,
                   seen, lastEvt, prev>>

\* Variant: the predicate lets every resource through.
NamespacedPredicateAll(gv, r) == TRUE

\* func(gv string, r *metav1.APIResource) bool { return r.Namespaced }
NamespacedPredicate(gv, r) == r.Namespaced

\* The resources of sequence rs, from index i on, the predicate matches.
RECURSIVE Matching(_, _, _)
Matching(gv, rs, i) ==
    IF i > Len(rs) THEN <<>>
    ELSE (IF NamespacedPredicate(gv, rs[i]) THEN <<rs[i]>> ELSE <<>>)
            \o Matching(gv, rs, i + 1)

\* discovery.FilteredBy(pred, rls), from list i on: a copy of every list
\* with the resources the predicate matches.  The function belongs to
\* client-go; keepEmpty tells whether it keeps a list left without
\* resources (client-go drops it).  A nil rls gives an empty slice.
RECURSIVE FilteredBy(_, _, _)
FilteredBy(rls, i, keepEmpty) ==
    IF i > Len(rls) THEN <<>>
    ELSE LET filtered == [rls[i] EXCEPT !.APIResources =
                             Matching(rls[i].GroupVersion, rls[i].APIResources, 1)]
         IN (IF filtered.APIResources # <<>> \/ keepEmpty THEN <<filtered>> ELSE <<>>)
               \o FilteredBy(rls, i + 1, keepEmpty)

\* ServerPreferredResources returned all and err: the method returns the
\* filtered lists and err.
FilterNamespaced(t) ==
    /\ pc[t] = "filter"
    /\ \E keepEmpty \in BOOLEAN :
         frame' = [frame EXCEPT ![t] =
                      [@ EXCEPT !.outer = "ServerPreferredNamespacedResources",
                                !.caller = "none",
                                !.all = frame[t].ret,
                                !.ret = FilteredBy(frame[t].ret, 1, keepEmpty),
                                !.retNil = FALSE]]
    /\ pc' = [pc EXCEPT ![t] = "return"]
    /\ UNCHANGED <<op, key, ret, err>>
    /\ Consumed

\* ------------------------------------------------------- ServerResources
\* A thread calls ServerResources, whose first statement calls ServerGroups.
CallServerResources(t) ==
    /\ pc[t] = "idle"
    /\ frame' = [frame EXCEPT ![t] = NewFrame("ServerResources")]
    /\ op' = [op EXCEPT ![t] = "ServerGroups"]
    /\ key' = [key EXCEPT ![t] = NoKey]
    /\ pc' = [pc EXCEPT ![t] = "lock"]
    /\ UNCHANGED <<srv, budget, cache, lock, ret, err, fetchId, ncalls,
                   seen, lastEvt, prev>>

\* ServerGroups returned: the error test, then result.  Ranging over the
\* groups of a nil list is a nil dereference.
ResourcesAfterGroups(t) ==
    /\ pc[t] = "resume"
    /\ frame[t].outer = "ServerResources"
    /\ op[t] = "ServerGroups"
    /\ IF err[t] # NoErr
       THEN /\ frame' = [frame EXCEPT ![t] = FailWith(@, err[t])]
            /\ pc' = [pc EXCEPT ![t] = "return"]
       ELSE IF IsNil(ret[t])
       THEN /\ pc' = [pc EXCEPT ![t] = "panic"]
            /\ UNCHANGED frame
       ELSE /\ frame' = [frame EXCEPT ![t].serverGroupList = ret[t]]
            /\ pc' = [pc EXCEPT ![t] = "loop"]
    /\ UNCHANGED <<op, key, ret, err>>
    /\ Consumed

\* The heads of the two range loops of ServerResources; after the last
\* group the method returns result.
ResourcesLoop(t) ==
    /\ pc[t] = "loop"
    /\ frame[t].outer = "ServerResources"
    /\ LET f == frame[t]
           groups == f.serverGroupList.data.Groups
       IN IF f.gi > Len(groups)
          THEN /\ frame' = [frame EXCEPT ![t].ret = f.result, ![t].retNil = FALSE]
               /\ pc' = [pc EXCEPT ![t] = "return"]
               /\ UNCHANGED <<op, key>>
          ELSE IF f.vi > Len(groups[f.gi].Versions)
          THEN /\ frame' = [frame EXCEPT ![t].gi = f.gi + 1, ![t].vi = 1]
               /\ UNCHANGED <<pc, op, key>>
          ELSE /\ op' = [op EXCEPT ![t] = "ServerResourcesForGroupVersion"]
               /\ key' = [key EXCEPT ![t] = groups[f.gi].Versions[f.vi].GroupVersion]
               /\ pc' = [pc EXCEPT ![t] = "lock"]
               /\ UNCHANGED frame
    /\ UNCHANGED <<ret, err>>
    /\ Consumed

\* ServerResourcesForGroupVersion returned: the error test, then the
\* pointer it returned is appended to result.
ResourcesAfterResources(t) ==
    /\ pc[t] = "resume"
    /\ frame[t].outer = "ServerResources"
    /\ op[t] = "ServerResourcesForGroupVersion"
    /\ IF err[t] # NoErr
       THEN /\ frame' = [frame EXCEPT ![t] = FailWith(@, err[t])]
            /\ pc' = [pc EXCEPT ![t] = "return"]
       ELSE /\ frame' = [frame EXCEPT ![t].result = Append(@, ret[t]),
                                      ![t].vi = @ + 1]
            /\ pc' = [pc EXCEPT ![t] = "loop"]
    /\ UNCHANGED <<op, key, ret, err>>
    /\ Consumed

Next ==
    \E t \in Threads :
        \/ CallReadThrough(t)
        \/ CallInvalidate(t)
        \/ Lock(t)
        \/ Check(t)
        \/ ProviderReturn(t)
        \/ InvalidateAssign(t)
        \/ Unlock(t)

Spec == Init /\ [][Next]_vars


\* ------------------------------------- the aggregation on its own: servers
PrefVersionNames == {AllVersionNames[i] : i \in 1..PrefVersions}

\* The sequences without repetition over S.
RECURSIVE Arrangements(_)
Arrangements(S) ==
    {<<>>} \cup UNION {{<<x>> \o a : a \in Arrangements(S \ {x})} : x \in S}

Deployments == <<"deployments">>
DeploymentsStatus == <<"deployments", "/", "status">>
Jobs == <<"jobs">>

\* The resource lists a group-version gv of the aggregation model can hold.
ResourceListMenu(gv) ==
    << <<>>,
       << Resource(Deployments, "Deployment", TRUE, gv) >>,
       << Resource(DeploymentsStatus, "Deployment", TRUE, gv),
          Resource(Deployments, "Deployment", TRUE, gv) >>,
       << Resource(Jobs, "Job", FALSE, gv),
          Resource(Deployments, "Deployment", TRUE, gv),
          Resource(<<"jobs", "/", "status">>, "Job", FALSE, gv) >> >>

\* A group declaring the versions of sequence vs and preferring p.
Group(name, vs, p) ==
    [Name |-> name,
     Versions |-> [i \in DOMAIN vs |-> Discovery(name, vs[i])],
     PreferredVersion |-> Discovery(name, p)]

\* Group "batch" declares and prefers v1 and has its own "deployments".
BatchGroup == Group("batch", <<"v1">>, "v1")
BatchResources ==
    [k \in {GroupVersionString("batch", "v1")} |->
        << Resource(Deployments, "BatchDeployment", FALSE, k) >>]

\* The server whose group "apps" declares the versions of sequence vs,
\* prefers p and holds list choice[i] of the menu for its i-th version,
\* followed by the groups and lists of more.
PreferredServer(vs, p, choice, more) ==
    LET appsKeys == {GroupVersionString("apps", vs[i]) : i \in DOMAIN vs}
        ListOf(k) == LET i == CHOOSE j \in DOMAIN vs : GroupVersionString("apps", vs[j]) = k
                     IN ResourceListMenu(k)[choice[i]]
    IN [groups |-> <<Group("apps", vs, p)>> \o more.groups,
        resources |-> [k \in appsKeys \cup DOMAIN more.resources |->
                         IF k \in appsKeys THEN ListOf(k) ELSE more.resources[k]]]

\* The servers of the aggregation model: group "apps" declares any versions
\* in any order and prefers any of them or a version no group declares,
\* and every declared version holds any list of the menu; group "batch"
\* follows it or is absent.
IsPreferredServer(s) ==
    \E vs \in Arrangements(PrefVersionNames) :
      \E p \in PrefVersionNames \cup {AllVersionNames[PrefVersions + 1]} :
        \E choice \in [DOMAIN vs -> DOMAIN ResourceListMenu(<<>>)] :
          \E more \in {[groups |-> <<>>, resources |-> EmptyMap],
                       [groups |-> <<BatchGroup>>, resources |-> BatchResources]} :
             s = PreferredServer(vs, p, choice, more)

\* One thread, a provider that always answers, and provider calls enough
\* for one pass over the server's group-versions.
InitPreferred ==
    /\ IsPreferredServer(srv)
    /\ lastEvt = [s \in Slots(srv) |-> NoEvt]
    /\ budget = 1 + Cardinality(ServerKeys(srv))
    /\ InitClient

NextPreferred ==
    \E t \in {1} :
        \/ CallServerPreferredResources(t)
        \/ CallServerPreferredNamespacedResources(t)
        \/ FilterNamespaced(t)
        \/ Lock(t)
        \/ Check(t)
        \/ ProviderAnswer(t, "ok")
        \/ Unlock(t)
        \/ PreferredAfterGroups(t)
        \/ PreferredLoop(t)
        \/ PreferredAfterResources(t)
        \/ PreferredRegroup(t)
        \/ ReturnComposite(t)

SpecPreferred == InitPreferred /\ [][NextPreferred]_vars

\* ------------------------------------------------------ ClientForResource
\* The errors ClientForResource makes or passes on: the pool's, the two
\* fmt.Errorf of serverResourceForGroupVersionKind, meta.Accessor's.
PoolError == -1
NotFetched == -2
NotHandled == -3
AccessorError == -4

\* The locals of ClientForResource(pool, disco, obj, defNs) before its
\* first statement; resource and ret hold no element (nil) or one.
ResolverFrame(obj, defNs) ==
    [outer |-> "ClientForResource", caller |-> "none",
     obj |-> obj, defNs |-> defNs,
     resource |-> <<>>, resourceErr |-> NoErr,
     ret |-> <<>>, retNil |-> TRUE, err |-> NoErr]

\* The objects of the resolver model: kinds the server knows, in another
\* case, or not at all; versions it declares or not; a namespace or none.
ResolverObjects ==
    [gvk : [Group : {"apps"},
            Version : PrefVersionNames \cup {AllVersionNames[PrefVersions + 1]},
            Kind : {"Deployment", "deployment", "Job", "Pod"}],
     namespace : {"", "foo"}]

ResolverDefaults == {"", "kube-system"}

\* ClientForResource up to its call of ServerResourcesForGroupVersion: the
\* pool yields a client or an error; the group-version string of the
\* object's kind is the key.
CallClientForResource(t) ==
    /\ pc[t] = "idle"
    /\ \E obj \in ResolverObjects, defNs \in ResolverDefaults, poolOk \in BOOLEAN :
         IF poolOk
         THEN /\ frame' = [frame EXCEPT ![t] = ResolverFrame(obj, defNs)]
              /\ op' = [op EXCEPT ![t] = "ServerResourcesForGroupVersion"]
              /\ key' = [key EXCEPT ![t] =
                            GroupVersionString(obj.gvk.Group, obj.gvk.Version)]
              /\ pc' = [pc EXCEPT ![t] = "lock"]
         ELSE /\ frame' = [frame EXCEPT ![t] =
                             [ResolverFrame(obj, defNs) EXCEPT !.err = PoolError]]
              /\ pc' = [pc EXCEPT ![t] = "return"]
              /\ UNCHANGED <<op, key>>
    /\ UNCHANGED <<srv, budget, cache, lock, ret, err, fetchId, ncalls,
                   seen, lastEvt, prev>>

\* Variant: the last resource of the kind wins.
LastOfKind(apiResources, kind) ==
    LET at == {i \in DOMAIN apiResources : apiResources[i].Kind = kind}
    IN IF at = {} THEN 0 ELSE CHOOSE i \in at : \A j \in at : i >= j

\* The index at which the scan of serverResourceForGroupVersionKind
\* returns: the first resource whose Kind is kind, 0 when there is none.
FirstOfKind(apiResources, kind) ==
    LET at == {i \in DOMAIN apiResources : apiResources[i].Kind = kind}
    IN IF at = {} THEN 0 ELSE CHOOSE i \in at : \A j \in at : i <= j

\* What serverResourceForGroupVersionKind returns for the answer
\* (resources, e) of ServerResourcesForGroupVersion.
ResourceForKind(resources, e, kind) ==
    IF e # NoErr
    THEN [resource |-> <<>>, err |-> NotFetched]
    ELSE LET i == FirstOfKind(resources.data.APIResources, kind)
         IN IF i = 0 THEN [resource |-> <<>>, err |-> NotHandled]
            ELSE [resource |-> <<resources.data.APIResources[i]>>, err |-> NoErr]

\* Variant: an object without namespace goes to "default".
NamespaceOrDefaultLiteral(obj, defNs) ==
    IF obj.namespace = "" THEN "default" ELSE obj.namespace

\* The namespace of the object, defNs when it has none.
NamespaceOr(obj, defNs) ==
    IF obj.namespace = "" THEN defNs ELSE obj.namespace

\* ServerResourcesForGroupVersion returned to
\* serverResourceForGroupVersionKind, whose result ClientForResource tests;
\* then meta.Accessor yields the object's metadata or an error, and the
\* client is scoped to the resource and the namespace.  Ranging over the
\* resources of a nil list is a nil dereference.
ResolverAfterResources(t) ==
    /\ pc[t] = "resume"
    /\ frame[t].outer = "ClientForResource"
    /\ IF err[t] = NoErr /\ IsNil(ret[t])
       THEN /\ pc' = [pc EXCEPT ![t] = "panic"]
            /\ UNCHANGED frame
       ELSE /\ pc' = [pc EXCEPT ![t] = "return"]
            /\ LET f == frame[t]
                   r == ResourceForKind(ret[t], err[t], f.obj.gvk.Kind)
                   g == [f EXCEPT !.resource = r.resource, !.resourceErr = r.err]
               IN IF r.err # NoErr
                  THEN frame' = [frame EXCEPT ![t] = [g EXCEPT !.err = r.err]]
                  ELSE \E accessorOk \in BOOLEAN :
                         IF accessorOk
                         THEN frame' = [frame EXCEPT ![t] =
                                  [g EXCEPT !.ret = << [resource |-> r.resource[1],
                                                        namespace |-> NamespaceOr(f.obj, f.defNs)] >>,
                                            !.retNil = FALSE]]
                         ELSE frame' = [frame EXCEPT ![t] = [g EXCEPT !.err = AccessorError]]
    /\ UNCHANGED <<op, key, ret, err>>
    /\ Consumed

\* The servers of the resolver model: group "apps" declares every version
\* of the aggregation model, all of them holding one list of the menu.
IsResolverServer(s) ==
    \E c \in DOMAIN ResourceListMenu(<<>>) :
       s = PreferredServer([i \in 1..PrefVersions |-> AllVersionNames[i]], "v1",
                           [i \in 1..PrefVersions |-> c],
                           [groups |-> <<>>, resources |-> EmptyMap])

\* One thread resolving objects against a server, through the cache.
InitResolver ==
    /\ IsResolverServer(srv)
    /\ lastEvt = [s \in Slots(srv) \cup
                         {<<"ServerResourcesForGroupVersion",
                            GroupVersionString(o.gvk.Group, o.gvk.Version)>> :
                              o \in ResolverObjects} |-> NoEvt]
    /\ budget = MaxCalls
    /\ InitClient

NextResolver ==
    \E t \in {1} :
        \/ CallClientForResource(t)
        \/ Lock(t)
        \/ Check(t)
        \/ ProviderReturn(t)
        \/ Unlock(t)
        \/ ResolverAfterResources(t)
        \/ ReturnComposite(t)

SpecResolver == InitResolver /\ [][NextResolver]_vars

\* ------------------------- the aggregations among concurrent callers
\* What the server of the concurrent model answers after a change: group
\* "apps" prefers its first version and every version serves "jobs" too.
AppsServerLater ==
    [groups |-> << [AppsServer.groups[1] EXCEPT
                       !.PreferredVersion = Discovery("apps", AllVersionNames[1])] >>,
     resources |-> [k \in ServerKeys(AppsServer) |->
                      <<Resource(Jobs, "Job", TRUE, k)>> \o AppsServer.resources[k]]]

\* The remote server changes between two provider calls.
ServerChanges ==
    /\ srv = AppsServer
    /\ srv' = AppsServerLater
    /\ UNCHANGED <<cache, lock, pc, op, key, ret, err, fetchId, ncalls,
                   seen, lastEvt, prev, frame, budget>>

InitAggregate ==
    /\ srv = AppsServer
    /\ lastEvt = [s \in Slots(srv) |-> NoEvt]
    /\ budget = MaxAggCalls
    /\ InitClient

NextAggregate ==
    \/ ServerChanges
    \/ \E t \in Threads :
        \/ CallServerResources(t)
        \/ CallServerPreferredResources(t)
        \/ CallServerPreferredNamespacedResources(t)
        \/ CallInvalidate(t)
        \/ Lock(t)
        \/ Check(t)
        \/ ProviderReturn(t)
        \/ InvalidateAssign(t)
        \/ Unlock(t)
        \/ ResourcesAfterGroups(t)
        \/ ResourcesLoop(t)
        \/ ResourcesAfterResources(t)
        \/ PreferredAfterGroups(t)
        \/ PreferredLoop(t)
        \/ PreferredAfterResources(t)
        \/ PreferredRegroup(t)
        \/ FilterNamespaced(t)
        \/ ReturnComposite(t)

SpecAggregate == InitAggregate /\ [][NextAggregate]_vars

\* --------------------------------------------- every call under fairness
\* The provider calls the invocation thread u is in can issue at most: one
\* for a read-through method, one for the group list and one for each of
\* the server's group-versions for an aggregation, none for Invalidate.
Pending(u) ==
    IF pc[u] = "idle" \/ op[u] = "Invalidate" THEN 0
    ELSE IF frame[u].outer = "none" THEN 1
    ELSE 1 + Cardinality(ServerGroupVersions(srv))

RECURSIVE PendingOf(_)
PendingOf(S) ==
    IF S = {} THEN 0
    ELSE LET u == CHOOSE x \in S : TRUE IN Pending(u) + PendingOf(S \ {u})

\* Thread t can start an invocation issuing up to n provider calls: the
\* model follows a behaviour while the calls begun fit the budget.
CanAfford(t, n) == ncalls + n + PendingOf(Threads \ {t}) <= budget

\* The server of the model under fairness: group "apps" with one version.
LiveServer ==
    PreferredServer(<<"v1">>, "v1", <<3>>, [groups |-> <<>>, resources |-> EmptyMap])

InitLive ==
    /\ srv = LiveServer
    /\ lastEvt = [s \in Slots(srv) |-> NoEvt]
    /\ budget = MaxLiveCalls
    /\ InitClient

\* A thread enters a method.
Call(t) ==
    \/ CanAfford(t, 1) /\ CallReadThrough(t)
    \/ CallInvalidate(t)
    \/ /\ CanAfford(t, 1 + Cardinality(ServerGroupVersions(srv)))
       /\ \/ CallServerResources(t)
          \/ CallServerPreferredResources(t)
          \/ CallServerPreferredNamespacedResources(t)

\* A thread inside a method takes its next step, the lock apart.
Step(t) ==
    \/ Check(t)
    \/ ProviderReturn(t)
    \/ InvalidateAssign(t)
    \/ Unlock(t)
    \/ ResourcesAfterGroups(t)
    \/ ResourcesLoop(t)
    \/ ResourcesAfterResources(t)
    \/ PreferredAfterGroups(t)
    \/ PreferredLoop(t)
    \/ PreferredAfterResources(t)
    \/ PreferredRegroup(t)
    \/ FilterNamespaced(t)
    \/ ReturnComposite(t)

NextLive == \E t \in Threads : Call(t) \/ Lock(t) \/ Step(t)

\* A running thread goes on, every provider call returns, and a thread
\* that finds the lock free again and again gets it.
Fairness == \A t \in Threads : WF_vars(Step(t)) /\ SF_vars(Lock(t))

SpecLive == InitLive /\ [][NextLive]_vars /\ Fairness

\* ------------------------------------------------------------- type check
TypeOK ==
    /\ lock \in Threads \cup {NoThread}
    /\ ncalls \in 0..budget
    /\ \A t \in Threads : fetchId[t] \in 0..budget /\ err[t] \in 0..budget

\* ============================================================ properties
\* The slot of the call thread t is in.
SlotOf(t) == <<op[t], key[t]>>
\* Thread t is in a read-through call that has tested the cache.
Tested(t) == op[t] \in ReadThrough /\ pc[t] \in {"fetch", "unlock"}
\* Thread t is about to return from a read-through call.
Returning(t) == op[t] \in ReadThrough /\ pc[t] = "unlock"
\* Thread t's call follows a call of t to the same method with the same key,
\* no Invalidate having returned since that call.
Repeats(t) == prev[t].op = op[t] /\ prev[t].key = key[t]
Issued(t) == IF fetchId[t] = 0 THEN 0 ELSE 1

\* C1 as stated: the second of two consecutive calls with the same key and
\* no Invalidate in between issues no provider call (the two issue one in
\* total when the first met an empty slot, and never more) and returns the
\* value the first call left in the cache.
C1_SecondCallNeverFetches ==
    \A t \in Threads :
        Returning(t) /\ Repeats(t) =>
            /\ prev[t].calls + Issued(t) <= 1
            /\ ret[t] = prev[t].left

\* C1 amended: when the first of two consecutive calls with the same key
\* leaves a non-nil value in the cache, the second call issues no provider
\* call and returns that same value with a nil error.
C1_SecondCallServedFromCache ==
    \A t \in Threads :
        Returning(t) /\ Repeats(t) /\ ~IsNil(prev[t].left) =>
            /\ Issued(t) = 0
            /\ prev[t].calls + Issued(t) <= 1
            /\ ret[t] = prev[t].left
            /\ err[t] = NoErr

\* A second call returns the value the first call fetched.
C1_Witness ==
    \E t \in Threads :
        /\ Returning(t) /\ Repeats(t)
        /\ prev[t].calls = 1 /\ ~IsNil(prev[t].left)
        /\ ret[t] = prev[t].left

\* C2: once a provider call for a slot has returned a value without error,
\* no provider call for that slot is in flight until Invalidate passes, and
\* every caller returning from that slot returns that value, without error.
C2_OneFetchServesAll ==
    \A t \in Threads :
        op[t] \in ReadThrough /\ pc[t] \in {"check", "fetch", "unlock"}
          /\ lastEvt[SlotOf(t)].kind = "ok" =>
            /\ pc[t] # "fetch"
            /\ pc[t] = "unlock" =>
                  /\ ret[t] = lastEvt[SlotOf(t)].val
                  /\ ~IsNil(ret[t])
                  /\ err[t] = NoErr

\* A caller is served, without a provider call, the value another caller of
\* the same method and key fetched.
C2_Witness ==
    \E t, u \in Threads :
        /\ t # u
        /\ Returning(t) /\ fetchId[t] = 0
        /\ lastEvt[SlotOf(t)].kind = "ok"
        /\ prev[u].op = op[t] /\ prev[u].key = key[t] /\ prev[u].calls = 1
        /\ ret[t] = prev[u].left

\* C3: the first call to a slot after Invalidate (no provider answer for
\* the slot since) calls the provider, and what it returns is what that
\* call answered, never an older value.
C3_FirstCallAfterInvalidateFetches ==
    \A t \in Threads :
        Tested(t) /\ seen[t] \in {"none", "dropped"} =>
            /\ fetchId[t] # 0
            /\ pc[t] = "unlock" /\ ~IsNil(ret[t]) => ret[t].id = fetchId[t]

\* A call to a slot whose value Invalidate dropped returns a new value.
C3_Witness ==
    \E t \in Threads :
        /\ Returning(t) /\ seen[t] = "dropped"
        /\ ~IsNil(ret[t]) /\ ret[t].id = fetchId[t]

\* Thread t is between the first and the last assignment of Invalidate.
MidReset(t) == \E i \in 2..Len(InvalidateFields) : pc[t] = ResetPc(i)

\* C4: while an Invalidate is between its first and its last assignment, no
\* other thread is at the cache test or at the fill of a read-through
\* method, nor inside another Invalidate.
C4_InvalidateAtomic ==
    \A t, u \in Threads :
        t # u /\ MidReset(t) => lock = t /\ pc[u] \in {"idle", "lock"}

\* An Invalidate has dropped the group list and not yet the server version,
\* while a read-through caller waits for the lock.
C4_Witness ==
    \E t, u \in Threads :
        /\ t # u /\ MidReset(t)
        /\ lastEvt[<<"ServerGroups", NoKey>>].kind = "dropped"
        /\ ~IsNil(cache.serverVersion)
        /\ pc[u] = "lock" /\ op[u] \in ReadThrough

Poisonable == {"ServerGroups", "ServerResourcesForGroupVersion"}

\* C5 as stated: after a failed fetch of ServerGroups or
\* ServerResourcesForGroupVersion(k), the next call to the same slot returns
\* nil without error and without calling the provider.
C5_FailedFetchPoisons ==
    \A t \in Threads :
        Tested(t) /\ op[t] \in Poisonable /\ seen[t] = "fail" =>
            /\ fetchId[t] = 0
            /\ pc[t] = "unlock" => IsNil(ret[t]) /\ err[t] = NoErr

\* C5 amended: a failed fetch assigns its nil result to the slot (the map
\* holds key k with nil), and the next call to the slot finds nil there and
\* calls the provider again.  Only a value the provider returned together
\* with an error stays cached: the next call returns it with a nil error and
\* without a provider call.
C5_FailedFetchRetried ==
    /\ \A sl \in DOMAIN lastEvt :
         sl[1] \in Poisonable /\ lastEvt[sl].kind = "fail" =>
            /\ IsNil(CacheGet(cache, sl[1], sl[2]))
            /\ sl[1] = "ServerResourcesForGroupVersion" =>
                  sl[2] \in DOMAIN cache.serverresources
    /\ \A t \in Threads :
         Tested(t) /\ op[t] \in Poisonable =>
            /\ seen[t] = "fail" => fetchId[t] # 0
            /\ seen[t] = "partial" =>
                  /\ fetchId[t] = 0
                  /\ ~IsNil(ret[t]) /\ err[t] = NoErr

\* The call after a failed fetch of a resource list has called the provider.
C5_Witness ==
    \E t \in Threads :
        /\ Returning(t) /\ op[t] = "ServerResourcesForGroupVersion"
        /\ seen[t] = "fail" /\ fetchId[t] # 0

\* C6: a ServerVersion call whose provider call ends with an error returns
\* nil and that error and changes no cache field; while the latest answer
\* for the server version is an error the field is nil, and the next
\* ServerVersion call calls the provider.
C6_ServerVersionNoPoison ==
    /\ [][\A t \in Threads :
            pc[t] = "fetch" /\ op[t] = "ServerVersion" /\ pc'[t] = "unlock"
              /\ lastEvt'[SlotOf(t)].kind # "ok" =>
                /\ cache' = cache
                /\ IsNil(ret'[t])
                /\ err'[t] = fetchId[t]]_vars
    /\ [](lastEvt[<<"ServerVersion", NoKey>>].kind \in {"fail", "partial"} =>
            IsNil(cache.serverVersion))
    /\ [](\A t \in Threads :
            Tested(t) /\ op[t] = "ServerVersion" /\ seen[t] \in {"fail", "partial"} =>
                fetchId[t] # 0)

\* A ServerVersion call after a failed one has called the provider while
\* another field holds a value.
C6_Witness ==
    \E t \in Threads :
        /\ Tested(t) /\ op[t] = "ServerVersion" /\ seen[t] \in {"fail", "partial"}
        /\ fetchId[t] # 0

\* C7: a thread inside a read-through method holds the lock; while a
\* provider call is in flight it is the only one, and every other thread is
\* idle or waiting for the lock.
C7_FetchUnderExclusiveLock ==
    /\ Cardinality({t \in Threads : pc[t] = "fetch"}) <= 1
    /\ \A t \in Threads :
         /\ op[t] \in ReadThrough /\ pc[t] \in {"check", "fetch", "unlock"} => lock = t
         /\ pc[t] = "fetch" => \A u \in Threads \ {t} : pc[u] \in {"idle", "lock"}

\* A provider call is in flight while a caller whose slot, of another
\* category, is filled waits for the lock.
C7_Witness ==
    \E t, u \in Threads :
        /\ t # u /\ pc[t] = "fetch"
        /\ pc[u] = "lock" /\ op[u] \in ReadThrough /\ op[u] # op[t]
        /\ CacheHit(cache, op[u], key[u])

\* ------------------------------------------- ServerPreferredResources
\* Thread t is about to return from ServerPreferredResources without error.
PreferredDone(t) ==
    /\ pc[t] = "return"
    /\ frame[t].outer = "ServerPreferredResources"
    /\ frame[t].err = NoErr

\* The names of the resources that out lists under group-version string gv.
NamesUnder(out, gv) ==
    UNION {{out[i].APIResources[j].Name : j \in DOMAIN out[i].APIResources} :
             i \in {x \in DOMAIN out : out[x].GroupVersion = gv}}

\* The versions group g declares, and their group-version strings.
Declared(g) == {g.Versions[i].Version : i \in DOMAIN g.Versions}
KeyOf(g, v) == GroupVersionString(g.Name, v)

\* The names without "/" the server lists for version v of group g.
ServedNames(g, v) ==
    {n \in {srv.resources[KeyOf(g, v)][i].Name : i \in DOMAIN srv.resources[KeyOf(g, v)]} :
        ~ContainsSlash(n)}

ServerGroupSet == {srv.groups[i] : i \in DOMAIN srv.groups}

\* C8: for a group whose preferred version P is declared, every name
\* without "/" in the server's list for P is listed under the group-version
\* of P and under no other group-version of the group.
C8_PreferredVersionWins ==
    \A t \in Threads : PreferredDone(t) =>
        \A g \in ServerGroupSet :
            LET P == g.PreferredVersion.Version
            IN P \in Declared(g) =>
                 \A n \in ServedNames(g, P) :
                    /\ n \in NamesUnder(frame[t].ret, KeyOf(g, P))
                    /\ \A v \in Declared(g) \ {P} :
                          n \notin NamesUnder(frame[t].ret, KeyOf(g, v))

\* The preferred version is declared last, after a version that serves
\* "deployments" too, and the name is listed under the preferred one.
C8_Witness ==
    \E t \in Threads :
        /\ PreferredDone(t)
        /\ \E g \in ServerGroupSet :
             /\ Len(g.Versions) >= 2
             /\ g.Versions[Len(g.Versions)].Version = g.PreferredVersion.Version
             /\ \A v \in Declared(g) : Deployments \in ServedNames(g, v)
             /\ Deployments \in NamesUnder(frame[t].ret, KeyOf(g, g.PreferredVersion.Version))

\* The places <<i, j>> of out, among the lists of group g, that hold name n.
PlacesOf(out, g, n) ==
    {<<i, j>> \in UNION {{<<x, y>> : y \in DOMAIN out[x].APIResources} : x \in DOMAIN out} :
        /\ out[i].GroupVersion \in {KeyOf(g, v) : v \in Declared(g)}
        /\ out[i].APIResources[j].Name = n}

\* C9: for every group, the names listed under its group-versions are the
\* names without "/" that some version of it serves, each listed once, and
\* every descriptor listed under a group-version is one the server lists
\* for that group-version.
C9_OnePerNamePerGroup ==
    \A t \in Threads : PreferredDone(t) =>
        LET out == frame[t].ret
        IN \A g \in ServerGroupSet :
             /\ UNION {NamesUnder(out, KeyOf(g, v)) : v \in Declared(g)}
                  = UNION {ServedNames(g, v) : v \in Declared(g)}
             /\ \A n \in UNION {ServedNames(g, v) : v \in Declared(g)} :
                   Cardinality(PlacesOf(out, g, n)) = 1
             /\ \A i \in DOMAIN out : \A j \in DOMAIN out[i].APIResources :
                   out[i].GroupVersion \in DOMAIN srv.resources
                   /\ \E k \in DOMAIN srv.resources[out[i].GroupVersion] :
                         srv.resources[out[i].GroupVersion][k] = out[i].APIResources[j]

\* Two groups serve "deployments", one of them in several versions of
\* which the last is preferred, and the name is listed once for each group.
C9_Witness ==
    \E t \in Threads :
        /\ PreferredDone(t)
        /\ Len(srv.groups) = 2
        /\ \A g \in ServerGroupSet :
             /\ \A v \in Declared(g) : Deployments \in ServedNames(g, v)
             /\ Cardinality(PlacesOf(frame[t].ret, g, Deployments)) = 1
        /\ \E g \in ServerGroupSet :
             /\ Len(g.Versions) >= 2
             /\ g.Versions[Len(g.Versions)].Version = g.PreferredVersion.Version

\* C10: no resource whose name contains "/" is a key of the selection, and
\* none is in a list ServerPreferredResources builds or returns.
C10_SubresourcesExcluded ==
    \A t \in Threads : frame[t].outer = "ServerPreferredResources" =>
        /\ \A gr \in DOMAIN frame[t].grApiResources \cup DOMAIN frame[t].grVersions :
              ~ContainsSlash(gr.Resource)
        /\ \A out \in {frame[t].result, frame[t].ret} :
              \A i \in DOMAIN out : \A j \in DOMAIN out[i].APIResources :
                 ~ContainsSlash(out[i].APIResources[j].Name)

\* ServerPreferredResources returns "jobs" for a server whose preferred
\* version serves "jobs/status" and "deployments/status" too.
C10_Witness ==
    \E t \in Threads :
        /\ PreferredDone(t)
        /\ \E g \in ServerGroupSet :
             LET P == g.PreferredVersion.Version
             IN /\ P \in Declared(g)
                /\ \E i \in DOMAIN srv.resources[KeyOf(g, P)] :
                      srv.resources[KeyOf(g, P)][i].Name = <<"jobs", "/", "status">>
                /\ \E v \in Declared(g) : \E i \in DOMAIN srv.resources[KeyOf(g, v)] :
                      srv.resources[KeyOf(g, v)][i].Name = DeploymentsStatus
                /\ Jobs \in NamesUnder(frame[t].ret, KeyOf(g, P))

\* The group-version strings of groups i, i+1, ... in the order the two
\* range loops visit them.
RECURSIVE VisitedFrom(_, _)
VisitedFrom(groups, i) ==
    IF i > Len(groups) THEN <<>>
    ELSE [j \in DOMAIN groups[i].Versions |-> groups[i].Versions[j].GroupVersion]
            \o VisitedFrom(groups, i + 1)

\* The names without "/" some declared version of group g serves.
AllServed(g) == UNION {ServedNames(g, v) : v \in Declared(g)}

\* The first version, in the declared order of g, that serves name n.
FirstServing(g, n) ==
    LET at == {i \in DOMAIN g.Versions : n \in ServedNames(g, g.Versions[i].Version)}
    IN g.Versions[CHOOSE i \in at : \A j \in at : i <= j].Version

\* The version of g a served name n belongs to: the preferred one if it
\* is declared and serves n, the first one serving n otherwise.
Winner(g, n) ==
    IF g.PreferredVersion.Version \in Declared(g)
         /\ n \in ServedNames(g, g.PreferredVersion.Version)
    THEN g.PreferredVersion.Version
    ELSE FirstServing(g, n)

\* C11: a successful ServerPreferredResources returns a non-nil slice with
\* one list per visited (group, version), in visiting order, each named by
\* the version's group-version string and holding exactly the names that
\* version wins (none: an empty list); a group without versions adds none.
C11_OneListPerVisit ==
    \A t \in Threads : PreferredDone(t) =>
        LET out == frame[t].ret
            visited == VisitedFrom(srv.groups, 1)
        IN /\ ~frame[t].retNil
           /\ Len(out) = Len(visited)
           /\ \A i \in DOMAIN out : out[i].GroupVersion = visited[i]
           /\ \A g \in ServerGroupSet : \A v \in Declared(g) :
                 /\ NamesUnder(out, KeyOf(g, v)) = {n \in AllServed(g) : Winner(g, n) = v}
                 /\ \A i \in DOMAIN out :
                       out[i].GroupVersion = KeyOf(g, v) =>
                          Len(out[i].APIResources)
                             = Cardinality({n \in AllServed(g) : Winner(g, n) = v})

\* Three group-versions of two groups are returned in order, one of them
\* empty although the server lists resources for it.
C11_Witness ==
    \E t \in Threads :
        /\ PreferredDone(t)
        /\ Len(srv.groups) = 2 /\ Len(frame[t].ret) = 3
        /\ \E i \in DOMAIN frame[t].ret :
              /\ frame[t].ret[i].APIResources = <<>>
              /\ \E n \in DOMAIN srv.resources[frame[t].ret[i].GroupVersion] :
                    ~ContainsSlash(srv.resources[frame[t].ret[i].GroupVersion][n].Name)

\* Thread t is about to return from ServerPreferredNamespacedResources
\* without error.
NamespacedDone(t) ==
    /\ pc[t] = "return"
    /\ frame[t].outer = "ServerPreferredNamespacedResources"
    /\ frame[t].err = NoErr

\* The resources that out lists under group-version string gv, as places.
ResourcesUnder(out, gv) ==
    {<<i, j>> \in UNION {{<<x, y>> : y \in DOMAIN out[x].APIResources} : x \in DOMAIN out} :
        out[i].GroupVersion = gv}

\* C12: of the lists ServerPreferredResources returned to it,
\* ServerPreferredNamespacedResources returns, for every group-version, no
\* more resources than it got, only resources with Namespaced set, and every
\* resource with Namespaced set, under the same group-version.
C12_NamespacedFilter ==
    \A t \in Threads : NamespacedDone(t) =>
        LET all == frame[t].all
            out == frame[t].ret
        IN /\ \A gv \in {all[i].GroupVersion : i \in DOMAIN all}
                          \cup {out[i].GroupVersion : i \in DOMAIN out} :
                 Cardinality(ResourcesUnder(out, gv)) <= Cardinality(ResourcesUnder(all, gv))
           /\ \A i \in DOMAIN out : \A j \in DOMAIN out[i].APIResources :
                 out[i].APIResources[j].Namespaced
           /\ \A i \in DOMAIN all : \A j \in DOMAIN all[i].APIResources :
                 all[i].APIResources[j].Namespaced =>
                    \E p \in ResourcesUnder(out, all[i].GroupVersion) :
                       out[p[1]].APIResources[p[2]] = all[i].APIResources[j]

\* A group-version holding "jobs" and "deployments" keeps the namespaced
\* one of the two, and the only resource of another one is filtered out.
C12_Witness ==
    \E t \in Threads :
        /\ NamespacedDone(t)
        /\ \E i \in DOMAIN frame[t].all :
              LET gv == frame[t].all[i].GroupVersion
              IN /\ Cardinality(ResourcesUnder(frame[t].ret, gv)) = 1
                 /\ Cardinality(ResourcesUnder(frame[t].all, gv)) = 2
        /\ \E i \in DOMAIN frame[t].all :
              LET gv == frame[t].all[i].GroupVersion
              IN /\ ResourcesUnder(frame[t].ret, gv) = {}
                 /\ ResourcesUnder(frame[t].all, gv) # {}

\* ------------------------------------------- concurrent aggregations
Aggregations == {"ServerResources", "ServerPreferredResources"}

\* Thread t runs ServerResources or ServerPreferredResources and the call
\* it made last returned an error.
CallFailed(t) ==
    /\ frame[t].outer \in Aggregations
    /\ pc[t] \in {"resume", "return"}
    /\ err[t] # NoErr

\* The group-versions the loops of t have not reached yet.
Remaining(t) ==
    LET f == frame[t]
    IN IF IsNil(f.serverGroupList) THEN 0
       ELSE Len(VisitedFrom(f.serverGroupList.data.Groups, f.gi)) - f.vi

\* C13: when a ServerGroups or ServerResourcesForGroupVersion call made by
\* ServerResources or ServerPreferredResources returns an error, the method
\* returns that error and a nil slice, and takes no further step towards the
\* provider (no lock, no cache test, no provider call) in that invocation.
C13_FailFast ==
    /\ [](\A t \in Threads :
            frame[t].outer \in Aggregations /\ pc[t] = "return" =>
               /\ frame[t].err = err[t]
               /\ err[t] # NoErr => frame[t].retNil /\ frame[t].ret = <<>>)
    /\ [][\A t \in Threads :
            CallFailed(t) =>
               /\ pc'[t] \in {"resume", "return", "filter", "idle"}
               /\ pc[t] = "resume" /\ pc'[t] # "resume" => pc'[t] = "return"
               /\ fetchId'[t] = 0]_vars

\* Two aggregations, one of each kind, return the error of their first
\* resource list with a group-version left to visit.
C13_Witness ==
    \E t, u \in Threads :
        /\ frame[t].outer = "ServerResources"
        /\ frame[u].outer = "ServerPreferredResources"
        /\ \A x \in {t, u} :
              /\ pc[x] = "return" /\ frame[x].err # NoErr
              /\ op[x] = "ServerResourcesForGroupVersion"
              /\ frame[x].retNil /\ Remaining(x) > 0

\* ------------------------------------------------------ ClientForResource
\* Thread t is about to return from ClientForResource after
\* serverResourceForGroupVersionKind returned to it.
ResolverDone(t) ==
    /\ pc[t] = "return"
    /\ frame[t].outer = "ClientForResource"
    /\ frame[t].err # PoolError

\* C14: serverResourceForGroupVersionKind returns an error and no resource
\* when ServerResourcesForGroupVersion returned an error or when no resource
\* of the list the server holds for the group-version has the requested
\* Kind; otherwise it returns, without error, the resource of that Kind
\* before which the list holds no other of that Kind.
C14_FirstOfKindWins ==
    \A t \in Threads : ResolverDone(t) =>
        LET f == frame[t]
            kind == f.obj.gvk.Kind
        IN IF err[t] # NoErr
           THEN f.resource = <<>> /\ f.resourceErr = NotFetched
           ELSE LET rs == srv.resources[key[t]]
                IN IF \A i \in DOMAIN rs : rs[i].Kind # kind
                   THEN f.resource = <<>> /\ f.resourceErr = NotHandled
                   ELSE /\ f.resourceErr = NoErr
                        /\ \E i \in DOMAIN rs :
                              /\ f.resource = <<rs[i]>>
                              /\ rs[i].Kind = kind
                              /\ \A j \in 1..(i - 1) : rs[j].Kind # kind

\* Of two resources of the requested Kind the first one listed, a
\* subresource, is returned.
C14_Witness ==
    \E t \in Threads :
        /\ ResolverDone(t) /\ err[t] = NoErr
        /\ Cardinality({i \in DOMAIN srv.resources[key[t]] :
                           srv.resources[key[t]][i].Kind = frame[t].obj.gvk.Kind}) = 2
        /\ Len(frame[t].resource) = 1
        /\ ContainsSlash(frame[t].resource[1].Name)

\* C15: the client a successful ClientForResource returns is scoped to the
\* resource found and to the object's namespace, or to defNs when the
\* object has none: never to a namespace that is neither of the two.
C15_NamespaceFallback ==
    \A t \in Threads :
        pc[t] = "return" /\ frame[t].outer = "ClientForResource"
          /\ frame[t].err = NoErr =>
            LET f == frame[t]
            IN /\ ~f.retNil /\ Len(f.ret) = 1
               /\ f.ret[1].resource = f.resource[1]
               /\ f.obj.namespace # "" => f.ret[1].namespace = f.obj.namespace
               /\ f.obj.namespace = "" => f.ret[1].namespace = f.defNs

\* An object without namespace gets a client scoped to "kube-system", the
\* caller's default.
C15_Witness ==
    \E t \in Threads :
        /\ pc[t] = "return" /\ frame[t].outer = "ClientForResource"
        /\ frame[t].err = NoErr
        /\ frame[t].obj.namespace = "" /\ frame[t].defNs = "kube-system"
        /\ frame[t].ret[1].namespace = "kube-system"

\* An Invalidate ran, from its Lock to its Unlock, after the latest
\* read-through call of t's aggregation returned: t holds a group list and
\* its next call, if any, has not returned yet.
Spans(t) ==
    /\ frame[t].outer \in Aggregations
    /\ ~IsNil(frame[t].serverGroupList)
    /\ prev[t] = NoCall

\* C16: an aggregation across whose lock acquisitions an Invalidate ran
\* keeps the group list it got before, which the cache holds no longer, and
\* the resource list its next call returns is the provider's latest answer
\* for the key, given after that group list was fetched.
C16_AggregationSpansInvalidate ==
    \A t \in Threads : Spans(t) =>
        /\ cache.servergroups # frame[t].serverGroupList
        /\ pc[t] = "unlock" /\ ~IsNil(ret[t]) =>
              /\ ret[t].id > frame[t].serverGroupList.id
              /\ lastEvt[SlotOf(t)].val = ret[t]

\* An aggregation holds the group list of the server as it was and gets,
\* after an Invalidate, a resource list of the server as it is now.
C16_Witness ==
    \E t \in Threads :
        /\ Spans(t)
        /\ pc[t] = "unlock" /\ fetchId[t] # 0 /\ err[t] = NoErr
        /\ srv = AppsServerLater
        /\ frame[t].serverGroupList.data.Groups = AppsServer.groups
        /\ ret[t].data.APIResources = AppsServerLater.resources[key[t]]
        /\ lastEvt[<<"ServerGroups", NoKey>>].kind = "dropped"

\* ------------------------------------------- ServerPreferredResources
\* The preferred version of the group that GroupResource gr belongs to.
PreferredOf(gr) ==
    (CHOOSE g \in ServerGroupSet : g.Name = gr.Group).PreferredVersion.Version

\* C17: a name without "/" that the preferred version of its group does not
\* serve (or whose group prefers a version it does not declare) is listed
\* under the first declared version that serves it and under no other; in
\* the course of one invocation the version recorded for a name changes to
\* the preferred version only, and never away from it.
C17_FirstVersionKeepsName ==
    /\ [](\A t \in Threads : PreferredDone(t) =>
            \A g \in ServerGroupSet :
               \A n \in AllServed(g) :
                  ~(g.PreferredVersion.Version \in Declared(g)
                      /\ n \in ServedNames(g, g.PreferredVersion.Version)) =>
                     \A v \in Declared(g) :
                        (n \in NamesUnder(frame[t].ret, KeyOf(g, v)))
                           = (v = FirstServing(g, n)))
    /\ [][\A t \in Threads :
            frame[t].outer = "ServerPreferredResources"
              /\ frame'[t].outer = "ServerPreferredResources" =>
                \A gr \in DOMAIN frame[t].grVersions :
                   /\ gr \in DOMAIN frame'[t].grVersions
                   /\ frame'[t].grVersions[gr] # frame[t].grVersions[gr] =>
                         /\ frame'[t].grVersions[gr] = PreferredOf(gr)
                         /\ frame[t].grVersions[gr] # PreferredOf(gr)]_vars

\* A group prefers a version it does not declare, its two versions serve
\* "deployments", and the name is listed under the first of them.
C17_Witness ==
    \E t \in Threads :
        /\ PreferredDone(t)
        /\ \E g \in ServerGroupSet :
              /\ g.PreferredVersion.Version \notin Declared(g)
              /\ Len(g.Versions) >= 2
              /\ \A v \in Declared(g) : Deployments \in ServedNames(g, v)
              /\ Deployments \in NamesUnder(frame[t].ret, g.Versions[1].GroupVersion)
              /\ Deployments \notin NamesUnder(frame[t].ret, g.Versions[2].GroupVersion)

\* ------------------------------------------- concurrent aggregations
\* C18: no thread reaches a nil dereference: a call that returns to an
\* aggregation without error returns a list, ServerResources gathers no nil
\* pointer, and every key the regrouping loop ranges over has the list of
\* its selected group-version; a provider call that ended with an error
\* makes the read-through method, and the aggregation that called it,
\* return that error.
C18_NeverCrashes ==
    \A t \in Threads :
        /\ pc[t] # "panic"
        /\ frame[t].outer \in Aggregations /\ pc[t] = "resume" /\ err[t] = NoErr =>
              ~IsNil(ret[t])
        /\ frame[t].outer = "ServerResources" =>
              \A i \in DOMAIN frame[t].result : ~IsNil(frame[t].result[i])
        /\ frame[t].outer = "ServerPreferredResources" /\ pc[t] = "regroup" =>
              \A gr \in frame[t].todo :
                 [Group |-> gr.Group, Version |-> frame[t].grVersions[gr]]
                    \in DOMAIN frame[t].gvApiResourceLists
        /\ Returning(t) /\ fetchId[t] # 0 /\ lastEvt[SlotOf(t)].kind # "ok" =>
              err[t] = fetchId[t]
        /\ frame[t].outer \in Aggregations /\ pc[t] = "return" /\ err[t] # NoErr =>
              frame[t].err = err[t] /\ frame[t].retNil

\* After a failed fetch of a resource list, an aggregation fetches the
\* list again and gets it; no provider call returned a value with an error.
C18_Witness ==
    \E t \in Threads :
        /\ frame[t].outer \in Aggregations
        /\ Returning(t) /\ op[t] = "ServerResourcesForGroupVersion"
        /\ seen[t] = "fail" /\ fetchId[t] # 0
        /\ ~IsNil(ret[t]) /\ err[t] = NoErr
        /\ \A sl \in DOMAIN lastEvt : lastEvt[sl].kind # "partial"

\* ------------------------------------------------------------ the cache
\* The value of slot sl in cache c.
SlotValue(c, sl) == CacheGet(c, sl[1], sl[2])

\* C19: a value in a slot is the answer of the latest provider call for
\* the slot, given after the latest pass of Invalidate over it; a value
\* enters a slot only from the provider call in flight, which its thread
\* issued last of all calls and under the lock it still holds; and while a
\* provider call is in flight no Invalidate acquires the lock, assigns or
\* returns, so no call begun before an Invalidate stores after it.
C19_NoStaleFill ==
    /\ [](\A sl \in DOMAIN lastEvt :
            ~IsNil(SlotValue(cache, sl)) =>
               /\ lastEvt[sl].kind \in {"ok", "partial"}
               /\ lastEvt[sl].val = SlotValue(cache, sl))
    /\ [](\A t \in Threads :
            pc[t] = "fetch" => lock = t /\ fetchId[t] = ncalls)
    /\ [][\A sl \in DOMAIN lastEvt :
            SlotValue(cache', sl) # SlotValue(cache, sl)
              /\ ~IsNil(SlotValue(cache', sl)) =>
                \E t \in Threads :
                   /\ pc[t] = "fetch" /\ SlotOf(t) = sl
                   /\ SlotValue(cache', sl).id = fetchId[t]]_vars
    /\ [][(\E t \in Threads : pc[t] = "fetch") =>
            \A u \in Threads :
               op[u] = "Invalidate" => pc'[u] = pc[u] /\ pc[u] = "lock"]_vars

\* A call refills a slot an Invalidate emptied, while the next Invalidate
\* waits for the lock.
C19_Witness ==
    \E t, u \in Threads :
        /\ Returning(t) /\ seen[t] = "dropped"
        /\ fetchId[t] # 0 /\ ~IsNil(ret[t])
        /\ SlotValue(cache, SlotOf(t)) = ret[t]
        /\ pc[u] = "lock" /\ op[u] = "Invalidate"

\* ----------------------------------------------------- under fairness
\* Thread t is outside every lock-holding section: idle, waiting for the
\* lock, or between two calls of an aggregation.
Outside(t) == pc[t] \in {"idle", "lock", "resume", "loop", "regroup", "filter", "return"}

\* C20: every call, of a read-through method, of Invalidate or of an
\* aggregation, returns in the end; a thread outside the methods' locked
\* sections does not hold the lock, whether the call before returned an
\* error or not, so none waits for a lock it holds; and no thread stops in
\* a nil dereference.
C20_EveryCallReturns ==
    /\ \A t \in Threads : (pc[t] # "idle") ~> (pc[t] = "idle")
    /\ [](\A t \in Threads :
            /\ Outside(t) => lock # t
            /\ pc[t] # "panic"
            /\ lock = t => pc[t] \in {"check", "fetch", "unlock"}
                              \/ op[t] = "Invalidate")

\* An aggregation is about to return an error, the lock free, while the
\* other thread waits to invalidate.
C20_Witness ==
    \E t, u \in Threads :
        /\ pc[t] = "return" /\ frame[t].err # NoErr
        /\ frame[t].outer = "ServerPreferredNamespacedResources"
        /\ lock = NoThread
        /\ pc[u] = "lock" /\ op[u] = "Invalidate"
=============================================================================
